---- MODULE Spec2Model ----
(***************************************************************************)
(* The session engine of the repository (src/src/game/engine.ts, class     *)
(* GameEngine) as a state machine: one variable per field of the object,   *)
(* one action per public method or callback.  The handlers are written as  *)
(* operators on a record `g` holding the fields of `this`, in the order of *)
(* the statements of the source, and an action commits the record the      *)
(* handler leaves behind.                                                  *)
(*                                                                         *)
(* Left out: the `ts` stamps and the generated moveId of the log entries   *)
(* (wall clock and uuid), and the payloads of the events handed to         *)
(* listeners by emit(), which no handler of the engine reads back. What is *)
(* kept of emit() is what the forwarders registered by join_game send to   *)
(* the socket room of the game during one handler.                         *)
(*                                                                         *)
(* end() is async: its statements up to the call of saveReplay run in the  *)
(* handler that called it; what follows the await runs later, when the     *)
(* promise of saveReplay settles (SaveSettle, explored by SpecSave).       *)
(*                                                                         *)
(* Beside the engine stands the Matchmaker (src/docs/replay_format.md,     *)
(* lines 55-108): its queue, and the tryMatch calls of the matchmaking     *)
(* loop, each cut at its awaits (SpecMatch).                               *)
(***************************************************************************)
EXTENDS Integers, Sequences, FiniteSets, TLC

\* ------------------------------------------------------------------ bounds
\* Longest action log explored in Spec.
MaxLog == 5
\* Rejected makeMove calls explored per session in Spec.
MaxRejected == 1
\* The join_game requests served for one game.
MaxJoins == 2
\* The entries handed to Matchmaker.enqueue by sockets, and the tryMatch calls.
MaxEntries == 3
MaxCalls == 3

\* ------------------------------------------------------- program constants
\* opts?.size ?? 3 and opts?.k ?? 3: the configuration of the server and tests.
DefaultSize == 3
DefaultK == 3

\* Spec explores the boards below the default size, with every run length up
\* to the default one; the default board is explored by SpecGame and SpecBoard.
SmallSizes == 1..(DefaultSize - 1)

\* ------------------------------------------------------------------ inputs
\* The game ids of the unit tests and the first byte of their sha256 digest.
GameIds == {"game-test-1", "game-test-2"}

Sha256Byte0(id) ==
    CASE id = "game-test-1" -> 162
      [] id = "game-test-2" -> 93
      [] OTHER -> 19

\* crypto.createHash("sha256").update(gameId + startedAt).digest("hex")
SeedOf(id) ==
    CASE id = "game-test-1" -> "sha256(game-test-1+startedAt)"
      [] id = "game-test-2" -> "sha256(game-test-2+startedAt)"
      [] OTHER -> "sha256(game-test-3+startedAt)"

\* The identities a make_move message may carry: with players A and A, "B" is
\* a caller who is in no session.
CallerIds == {"A", "B"}

\* players: [Player, Player], indexed 0 and 1 as in the source.
Pair(a, b) == [i \in 0..1 |-> IF i = 0 THEN a ELSE b]

\* undefined / null of the source.
Undefined == "undefined"
Null == "null"
NoTimer == 0

VARIABLES
    gameId,      \* this.gameId
    size,        \* this.size
    k,           \* this.k
    players,     \* this.players (the ids)
    board,       \* this.board[y][x]: 0 empty, 1 player0, 2 player1
    turnIndex,   \* this.turnIndex
    actions,     \* this.actions
    seq,         \* this.seq
    startedAt,   \* this.startedAt is set
    endedAt,     \* this.endedAt is set
    turnTimer,   \* this.turnTimer: a handle, or NoTimer for undefined
    timers,      \* the runtime's timers, by handle: state and the turn armed for
    metrics,     \* this.metrics
    saves,       \* the saveReplay calls of end(), in order, and how each settled
    listeners,   \* how many times join_game registered its forwarders with on()
    room,        \* what the socket room was sent during the last handler
    inMemoryQueue, \* Matchmaker.inMemoryQueue (or the Redis list)
    entries,     \* how many entries sockets have enqueued; entry i is the i-th
    calls,       \* the tryMatch calls begun so far: where each is, what it holds
    pairs,       \* the pairs tryMatch returned, in order
    serial,      \* no call of the matchmaker has run while a tryMatch was under way
    ret          \* what the last makeMove call returned

vars == <<gameId, size, k, players, board, turnIndex, actions, seq, startedAt,
          endedAt, turnTimer, timers, metrics, saves, listeners, room, ret,
          inMemoryQueue, entries, calls, pairs, serial>>

\* The fields of `this` as one record.
This ==
    [gameId |-> gameId, size |-> size, k |-> k, players |-> players,
     board |-> board, turnIndex |-> turnIndex, actions |-> actions, seq |-> seq,
     startedAt |-> startedAt, endedAt |-> endedAt, turnTimer |-> turnTimer,
     timers |-> timers, metrics |-> metrics, saves |-> saves,
     listeners |-> listeners, room |-> room]

Commit(g) ==
    /\ gameId' = g.gameId
    /\ size' = g.size
    /\ k' = g.k
    /\ players' = g.players
    /\ board' = g.board
    /\ turnIndex' = g.turnIndex
    /\ actions' = g.actions
    /\ seq' = g.seq
    /\ startedAt' = g.startedAt
    /\ endedAt' = g.endedAt
    /\ turnTimer' = g.turnTimer
    /\ timers' = g.timers
    /\ metrics' = g.metrics
    /\ saves' = g.saves
    /\ listeners' = g.listeners
    /\ room' = g.room
    /\ UNCHANGED <<inMemoryQueue, entries, calls, pairs, serial>>

\* ------------------------------------------------------------- constructor
EmptyBoard(n) == [y \in 0..(n - 1) |-> [x \in 0..(n - 1) |-> 0]]

Constructor(id, ps, n, kk) ==
    [gameId |-> id, size |-> n, k |-> kk, players |-> ps,
     board |-> EmptyBoard(n), turnIndex |-> Sha256Byte0(id) % 2,
     actions |-> <<>>, seq |-> 0, startedAt |-> FALSE, endedAt |-> FALSE,
     turnTimer |-> NoTimer, timers |-> <<>>,
     metrics |-> [movesAccepted |-> 0, movesRejected |-> 0], saves |-> <<>>,
     listeners |-> 0, room |-> <<>>]

NoReturn == [ok |-> FALSE, error |-> [code |-> "no_call"]]

\* ------------------------------------------------------------ emit
\* this.emit(ev, ...): every listener registered for ev runs, in order; each
\* forwarder of join_game sends ev to the room. `emission` numbers the emit
\* calls of the handler that reached the room.
emit(g, ev) ==
    IF g.listeners = 0 THEN g
    ELSE LET n == (Len(g.room) \div g.listeners) + 1
         IN  [g EXCEPT !.room = @ \o [i \in 1..g.listeners |->
                                         [ev |-> ev, emission |-> n]]]

\* ------------------------------------------------------------ the log
nextSeqSkips(s) == s + 2

nextSeq(s) == s + 1

recordSeedsAll(g, type, payload, rng_seed) ==
    LET n == nextSeq(g.seq)
        a == [seq |-> n, type |-> type, payload |-> payload, rng_seed |-> "seed"]
    IN  [g EXCEPT !.seq = n, !.actions = Append(@, a)]

record(g, type, payload, rng_seed) ==
    LET n == nextSeq(g.seq)
        a == [seq |-> n, type |-> type, payload |-> payload, rng_seed |-> rng_seed]
    IN  [g EXCEPT !.seq = n, !.actions = Append(@, a)]

\* ------------------------------------------------------------ the timer
clearTimeoutNoop(ts, h) == ts

\* clearTimeout(h): a pending timer will not fire; any other is left as it is.
clearTimeout(ts, h) ==
    [t \in DOMAIN ts |->
        IF t = h /\ ts[t].state = "pending" THEN [ts[t] EXCEPT !.state = "cleared"]
        ELSE ts[t]]

\* setTimeout(...): a new pending timer; `turn` notes the number of accepted
\* moves at the time it is armed.
setTimeout(ts, turn) == Append(ts, [state |-> "pending", turn |-> turn])

scheduleTimeoutKeepsOld(g) ==
    LET armed == setTimeout(g.timers, g.metrics.movesAccepted)
    IN  [g EXCEPT !.timers = armed, !.turnTimer = Len(armed)]

scheduleTimeout(g) ==
    LET cleared == IF g.turnTimer # NoTimer THEN clearTimeout(g.timers, g.turnTimer)
                   ELSE g.timers
        armed == setTimeout(cleared, g.metrics.movesAccepted)
    IN  [g EXCEPT !.timers = armed, !.turnTimer = Len(armed)]

\* ------------------------------------------------------------ end
\* The call saveReplay({..., result, actionCount: this.actions.length, actions:
\* this.actions}) of end(): the promise is pending when end() gives way.
saveReplay(g, result) ==
    [g EXCEPT !.saves = Append(@, [result |-> result,
                                   actionCount |-> Len(g.actions),
                                   state |-> "pending"])]

\* saveReplay returned: nothing follows the await.
saveResolved(g, i) == [g EXCEPT !.saves[i].state = "resolved"]

saveRejectedRollsBack(g, i) ==
    [g EXCEPT !.saves[i].state = "rejected",
              !.endedAt = FALSE,
              !.seq = @ - 1,
              !.actions = SubSeq(@, 1, Len(@) - 1)]

\* saveReplay threw: the catch block of end() writes to the console.
saveRejected(g, i) == [g EXCEPT !.saves[i].state = "rejected"]

end(g, result) ==
    LET g1 == IF g.turnTimer # NoTimer
              THEN [g EXCEPT !.timers = clearTimeout(@, g.turnTimer),
                             !.turnTimer = NoTimer]
              ELSE g
        g2 == [g1 EXCEPT !.endedAt = TRUE]
        g3 == record(g2, "end", result, Undefined)
        g4 == emit(g3, "game_ended")
    IN  saveReplay(g4, result)

\* ------------------------------------------------------------ start
start(g) ==
    LET g1 == [g EXCEPT !.startedAt = TRUE]
        g2 == record(g1, "start", [firstPlayer |-> g.players[g.turnIndex]],
                     SeedOf(g.gameId))
        g3 == emit(g2, "game_started")
    IN  emit(scheduleTimeout(g3), "state_update")

onTimeoutNoEnd(g, h) ==
    LET g0 == [g EXCEPT !.timers[h].state = "fired"]
        player == g0.players[g0.turnIndex]
        g1 == record(g0, "timeout", [playerId |-> player, reason |-> "turn_timeout"],
                     Undefined)
    IN  emit([g1 EXCEPT !.metrics.movesRejected = @ + 1], "move_rejected")

onTimeoutMoverWins(g, h) ==
    LET g0 == [g EXCEPT !.timers[h].state = "fired"]
        player == g0.players[g0.turnIndex]
        g1 == record(g0, "timeout", [playerId |-> player, reason |-> "turn_timeout"],
                     Undefined)
        g2 == emit([g1 EXCEPT !.metrics.movesRejected = @ + 1], "move_rejected")
    IN  end(g2, [winner |-> player, reason |-> "timeout"])

\* The callback given to setTimeout for handle h.
onTimeout(g, h) ==
    LET g0 == [g EXCEPT !.timers[h].state = "fired"]
        player == g0.players[g0.turnIndex]
        g1 == record(g0, "timeout", [playerId |-> player, reason |-> "turn_timeout"],
                     Undefined)
        g2 == emit([g1 EXCEPT !.metrics.movesRejected = @ + 1], "move_rejected")
    IN  end(g2, [winner |-> g2.players[1 - g2.turnIndex], reason |-> "timeout"])

\* ------------------------------------------------------------ the board
inBounds(g, x, y) == x >= 0 /\ x < g.size /\ y >= 0 /\ y < g.size

isFull(g) == \A y \in 0..(g.size - 1) : \A x \in 0..(g.size - 1) : g.board[y][x] # 0

dirsNoAntiDiagonal == {<<1, 0>>, <<0, 1>>, <<1, 1>>}

dirs == {<<1, 0>>, <<0, 1>>, <<1, 1>>, <<1, -1>>}

\* One while loop of checkWinAt: the cells counted from (x, y) on, stepping by d.
RECURSIVE walk(_, _, _, _, _)
walk(g, x, y, d, pid) ==
    IF inBounds(g, x, y) /\ g.board[y][x] = pid
    THEN 1 + walk(g, x + d[1], y + d[2], d, pid)
    ELSE 0

cntForwardOnly(g, x, y, d, pid) == 1 + walk(g, x + d[1], y + d[2], d, pid)

\* cnt of one direction: 1, plus the forward loop, plus the backward loop.
cnt(g, x, y, d, pid) ==
    1 + walk(g, x + d[1], y + d[2], d, pid)
      + walk(g, x - d[1], y - d[2], <<-d[1], -d[2]>>, pid)

checkWinAt(g, x, y, pid) == \E d \in dirs : cnt(g, x, y, d, pid) >= g.k

\* ------------------------------------------------------------ makeMove
expectedIsOther(g) == g.players[1 - g.turnIndex]

expected(g) == g.players[g.turnIndex]

rejectLogged(g, err) ==
    [g |-> emit(record([g EXCEPT !.metrics.movesRejected = @ + 1], "move", err,
                       Undefined), "move_rejected"),
     ret |-> [ok |-> FALSE, error |-> err]]

reject(g, err) ==
    [g |-> emit([g EXCEPT !.metrics.movesRejected = @ + 1], "move_rejected"),
     ret |-> [ok |-> FALSE, error |-> err]]

\* Lines 99-110: after the move is recorded.
afterMoveWinnerByTurn(g, playerId, x, y, pid) ==
    IF checkWinAt(g, x, y, pid)
    THEN end(g, [winner |-> g.players[1 - g.turnIndex], reason |-> "win"])
    ELSE IF isFull(g) THEN end(g, [winner |-> Null, reason |-> "draw"])
    ELSE emit(scheduleTimeout([g EXCEPT !.turnIndex = 1 - @]), "state_update")

afterMove(g, playerId, x, y, pid) ==
    IF checkWinAt(g, x, y, pid) THEN end(g, [winner |-> playerId, reason |-> "win"])
    ELSE IF isFull(g) THEN end(g, [winner |-> Null, reason |-> "draw"])
    ELSE emit(scheduleTimeout([g EXCEPT !.turnIndex = 1 - @]), "state_update")

\* Lines 92-111: the move is accepted.
accept(g, playerId, x, y) ==
    LET pid == g.turnIndex + 1
        g1 == [g EXCEPT !.board[y][x] = pid]
        move == [playerId |-> playerId, x |-> x, y |-> y]
        g2 == record(g1, "move", move, Undefined)
        g3 == emit([g2 EXCEPT !.metrics.movesAccepted = @ + 1], "move_accepted")
    IN  [g |-> afterMove(g3, playerId, x, y, pid),
         ret |-> [ok |-> TRUE, action |-> g2.actions[Len(g2.actions)]]]

makeMoveNoCellCheck(g, playerId, x, y) ==
    IF playerId # expected(g)
    THEN reject(g, [code |-> "not_your_turn", message |-> "It's not your turn",
                    expected |-> expected(g)])
    ELSE IF x < 0 \/ x >= g.size \/ y < 0 \/ y >= g.size
    THEN reject(g, [code |-> "out_of_bounds", message |-> "Move out of bounds"])
    ELSE accept(g, playerId, x, y)

makeMoveFirstColumnOut(g, playerId, x, y) ==
    IF playerId # expected(g)
    THEN reject(g, [code |-> "not_your_turn", message |-> "It's not your turn",
                    expected |-> expected(g)])
    ELSE IF x <= 0 \/ x >= g.size \/ y < 0 \/ y >= g.size
    THEN reject(g, [code |-> "out_of_bounds", message |-> "Move out of bounds"])
    ELSE IF g.board[y][x] # 0
    THEN reject(g, [code |-> "cell_taken", message |-> "Cell already occupied"])
    ELSE accept(g, playerId, x, y)

makeMove(g, playerId, x, y) ==
    IF playerId # expected(g)
    THEN reject(g, [code |-> "not_your_turn", message |-> "It's not your turn",
                    expected |-> expected(g)])
    ELSE IF x < 0 \/ x >= g.size \/ y < 0 \/ y >= g.size
    THEN reject(g, [code |-> "out_of_bounds", message |-> "Move out of bounds"])
    ELSE IF g.board[y][x] # 0
    THEN reject(g, [code |-> "cell_taken", message |-> "Cell already occupied"])
    ELSE accept(g, playerId, x, y)

\* ------------------------------------------------------------ actions
\* The coordinates a caller sends: the grid, and one step outside it on each side.
Coords == (-1)..size

\* The engine as a handler finds it: the room has been sent nothing yet.
Entered == [This EXCEPT !.room = <<>>]

\* g.start()
StartCall ==
    /\ Commit(start(Entered))
    /\ UNCHANGED ret

\* g.makeMove(playerId, x, y)
MakeMoveCall(playerId, x, y) ==
    LET r == makeMove(Entered, playerId, x, y)
    IN  /\ ret' = r.ret
        /\ Commit(r.g)

\* The join_game handler for this game: socket.join, then five g.on(...)
\* registrations, one forwarder per engine event.
JoinGameCall ==
    /\ Commit([Entered EXCEPT !.listeners = @ + 1])
    /\ UNCHANGED ret

\* The runtime runs the callback of a pending timer.
TimerFireCall(h) ==
    /\ h \in DOMAIN timers
    /\ timers[h].state = "pending"
    /\ Commit(onTimeout(Entered, h))
    /\ UNCHANGED ret

\* ------------------------------------------------------------ Matchmaker
\* dequeue() found the queue empty.
NoEntry == 0

\* The matchmaker the server creates at start-up.
NewMatchmaker ==
    /\ inMemoryQueue = <<>>
    /\ entries = 0
    /\ calls = <<>>
    /\ pairs = <<>>
    /\ serial = TRUE

\* enqueue(entry): push, or RPUSH.
enqueue(q, entry) == Append(q, entry)

\* dequeue(): shift, or LPOP; the entry (or none) and the queue left behind.
dequeue(q) ==
    IF q = <<>> THEN [entry |-> NoEntry, queue |-> q]
    ELSE [entry |-> Head(q), queue |-> Tail(q)]

\* tryMatch up to its first await: the first dequeue.
tryMatchBegin(q) ==
    LET d == dequeue(q)
    IN  [queue |-> d.queue,
         call |-> [pc |-> IF d.entry = NoEntry THEN "returned_null" ELSE "await_a",
                   a |-> d.entry, b |-> NoEntry]]

tryMatchResumeNoPutBack(q, c) ==
    IF c.pc = "await_a"
    THEN LET d == dequeue(q)
         IN  [queue |-> d.queue,
              call |-> [c EXCEPT !.b = d.entry,
                                 !.pc = IF d.entry = NoEntry THEN "await_b"
                                        ELSE "returned_pair"]]
    ELSE [queue |-> q, call |-> [c EXCEPT !.pc = "returned_null"]]

\* tryMatch from one await to the next: after the first dequeue, the second
\* one and, with two entries in hand, the return of the pair; after a second
\* dequeue that found nothing, a is put back and null is returned.
tryMatchResume(q, c) ==
    IF c.pc = "await_a"
    THEN LET d == dequeue(q)
         IN  [queue |-> d.queue,
              call |-> [c EXCEPT !.b = d.entry,
                                 !.pc = IF d.entry = NoEntry THEN "await_b"
                                        ELSE "returned_pair"]]
    ELSE [queue |-> enqueue(q, c.a), call |-> [c EXCEPT !.pc = "returned_null"]]

\* The tryMatch calls that have not returned.
InFlight == {c \in DOMAIN calls : calls[c].pc \in {"await_a", "await_b"}}

EngineUnchanged ==
    UNCHANGED <<gameId, size, k, players, board, turnIndex, actions, seq, startedAt,
                endedAt, turnTimer, timers, metrics, saves, listeners, room, ret>>

\* A socket's enqueue request.
EnqueueCall ==
    /\ inMemoryQueue' = enqueue(inMemoryQueue, entries + 1)
    /\ entries' = entries + 1
    /\ serial' = (serial /\ InFlight = {})
    /\ UNCHANGED <<calls, pairs>>
    /\ EngineUnchanged

\* The matchmaking loop calls tryMatch.
TryMatchCall ==
    LET r == tryMatchBegin(inMemoryQueue)
    IN  /\ inMemoryQueue' = r.queue
        /\ calls' = Append(calls, r.call)
        /\ serial' = (serial /\ InFlight = {})
        /\ UNCHANGED <<entries, pairs>>
        /\ EngineUnchanged

\* Call c goes on after an await.
TryMatchResumeCall(c) ==
    LET r == tryMatchResume(inMemoryQueue, calls[c])
    IN  /\ c \in InFlight
        /\ inMemoryQueue' = r.queue
        /\ calls' = [calls EXCEPT ![c] = r.call]
        /\ pairs' = IF r.call.pc = "returned_pair"
                     THEN Append(pairs, <<r.call.a, r.call.b>>)
                     ELSE pairs
        /\ UNCHANGED <<entries, serial>>
        /\ EngineUnchanged

\* ---------------------------------------------- Spec: any order of calls
\* The object the constructor leaves behind.
Constructed(g) ==
    /\ gameId = g.gameId
    /\ size = g.size
    /\ k = g.k
    /\ players = g.players
    /\ board = g.board
    /\ turnIndex = g.turnIndex
    /\ actions = g.actions
    /\ seq = g.seq
    /\ startedAt = g.startedAt
    /\ endedAt = g.endedAt
    /\ turnTimer = g.turnTimer
    /\ timers = g.timers
    /\ metrics = g.metrics
    /\ saves = g.saves
    /\ listeners = g.listeners
    /\ room = g.room
    /\ ret = NoReturn
    /\ NewMatchmaker

\* Two distinct players, or the same identity given twice.
PlayerPairs == {Pair("A", "B"), Pair("A", "A")}

Init ==
    \E id \in GameIds, ps \in PlayerPairs, n \in SmallSizes, kk \in 1..DefaultK :
        Constructed(Constructor(id, ps, n, kk))

\* The entries of a log that have the given type.
NumIn(log, type) == Cardinality({i \in DOMAIN log : log[i].type = type})

NumOf(type) == NumIn(actions, type)

\* makeMove calls that were rejected so far: movesRejected also counts timeouts.
RejectedCalls == metrics.movesRejected - NumOf("timeout")

Start ==
    /\ Len(actions) + 1 <= MaxLog
    /\ StartCall

MakeMove ==
    \E playerId \in CallerIds, x \in Coords, y \in Coords :
        /\ IF makeMove(This, playerId, x, y).ret.ok
           THEN Len(actions) + 2 <= MaxLog
           ELSE RejectedCalls < MaxRejected
        /\ MakeMoveCall(playerId, x, y)

TimerFire ==
    \E h \in DOMAIN timers :
        /\ Len(actions) + 2 <= MaxLog
        /\ TimerFireCall(h)

Next == Start \/ MakeMove \/ TimerFire

Spec == Init /\ [][Next]_vars

\* ------------------- SpecSave: the calls, and the saveReplay promises settle
\* The promise of the i-th saveReplay call settles, one way or the other.
SaveSettleCall(i, ok) ==
    /\ i \in DOMAIN saves
    /\ saves[i].state = "pending"
    /\ Commit(IF ok THEN saveResolved(This, i) ELSE saveRejected(This, i))
    /\ UNCHANGED ret

SaveSettle == \E i \in DOMAIN saves, ok \in BOOLEAN : SaveSettleCall(i, ok)

\* A session between two identities, as the matchmaking loop creates it.
SaveInit ==
    \E n \in SmallSizes, kk \in 1..DefaultK :
        Constructed(Constructor("game-test-1", Pair("A", "B"), n, kk))

SaveNext == Start \/ MakeMove \/ TimerFire \/ SaveSettle

SpecSave == SaveInit /\ [][SaveNext]_vars

\* ------------------- SpecMatch: sockets enqueue, the loop calls tryMatch
MatchInit ==
    Constructed(Constructor("game-test-1", Pair("A", "B"), DefaultSize, DefaultK))

Enqueue ==
    /\ entries < MaxEntries
    /\ EnqueueCall

TryMatch ==
    /\ Len(calls) < MaxCalls
    /\ TryMatchCall

TryMatchResume == \E c \in DOMAIN calls : TryMatchResumeCall(c)

MatchNext == Enqueue \/ TryMatch \/ TryMatchResume

SpecMatch == MatchInit /\ [][MatchNext]_vars

\* ------------------- SpecLive: a session of the server, timers do fire
LiveInit ==
    \E n \in SmallSizes, kk \in 1..DefaultK :
        Constructed(Constructor("game-test-1", Pair("A", "B"), n, kk))

\* The server calls start() once, right after the constructor.
LiveStart ==
    /\ ~startedAt
    /\ StartCall

LiveMove ==
    \E playerId \in CallerIds, x \in Coords, y \in Coords :
        /\ startedAt
        /\ makeMove(This, playerId, x, y).ret.ok \/ RejectedCalls < MaxRejected
        /\ MakeMoveCall(playerId, x, y)

LiveTimerFire == \E h \in DOMAIN timers : TimerFireCall(h)

LiveNext == LiveStart \/ LiveMove \/ LiveTimerFire

\* The handles setTimeout can return in such a session.
TimerHandles == 1..((DefaultSize - 1) * (DefaultSize - 1))

\* A pending timer fires unless it is cancelled.
TimersFire == \A h \in TimerHandles : WF_vars(TimerFireCall(h))

SpecLive == LiveInit /\ [][LiveNext]_vars /\ TimersFire

\* ------------------- SpecRoom: the calls, and sockets joining the game's room
RoomInit ==
    \E n \in SmallSizes, kk \in 1..DefaultK :
        Constructed(Constructor("game-test-1", Pair("A", "B"), n, kk))

\* A join_game request can arrive once the game is in the games map, which is
\* filled in the same turn of the event loop in which start() is called.
JoinGame ==
    /\ startedAt
    /\ listeners < MaxJoins
    /\ JoinGameCall

RoomNext == LiveStart \/ MakeMove \/ TimerFire \/ JoinGame

SpecRoom == RoomInit /\ [][RoomNext]_vars

\* ------------------------- SpecGame: the scenario of the engine's unit test
\* new GameEngine("game-test-1", [{id: "A"}, {id: "B"}]), start(), and then
\* legal moves by the player whose turn it is, until the session ends.
GameInit == Constructed(Constructor("game-test-1", Pair("A", "B"), DefaultSize, DefaultK))

GameStart ==
    /\ actions = <<>>
    /\ StartCall

GameMove ==
    \E x \in 0..(size - 1), y \in 0..(size - 1) :
        /\ startedAt
        /\ ~endedAt
        /\ board[y][x] = 0
        /\ MakeMoveCall(players[turnIndex], x, y)

GameNext == GameStart \/ GameMove

SpecGame == GameInit /\ [][GameNext]_vars

\* --------------------- SpecBoard: one placement on every board of a size
\* Every grid of marks up to the default size, every run length up to the
\* default one, and one move of the player at turn on an empty cell of it.
Boards(n) == [0..(n - 1) -> [0..(n - 1) -> 0..2]]

BoardInit ==
    \E id \in GameIds, n \in 1..DefaultSize, kk \in 1..DefaultK :
        \E b \in Boards(n) :
            Constructed([Constructor(id, Pair("A", "B"), n, kk) EXCEPT !.board = b])

Place ==
    \E x \in 0..(size - 1), y \in 0..(size - 1) :
        /\ actions = <<>>
        /\ board[y][x] = 0
        /\ MakeMoveCall(players[turnIndex], x, y)

SpecBoard == BoardInit /\ [][Place]_vars

\* ------------------------------------------------------------ vocabulary
LastAction == actions[Len(actions)]

\* The session was started the way the server starts it: start() once, first.
ProperlyStarted ==
    /\ actions # <<>>
    /\ actions[1].type = "start"
    /\ NumOf("start") = 1

\* A session as the server runs it: started once, between two identities.
ServerSession == ProperlyStarted /\ players[0] # players[1]

\* An End entry has been appended.
Ended == NumOf("end") >= 1

\* The positions of the Move entries, in log order.
MoveIdx == {i \in DOMAIN actions : actions[i].type = "move"}

\* (x, y) lies on a line of kk cells, all inside the grid and all marked pid,
\* along one of the four axes.
RunThrough(b, n, kk, x, y, pid) ==
    \E d \in {<<1, 0>>, <<0, 1>>, <<1, 1>>, <<1, -1>>} : \E o \in 0..(kk - 1) :
        \A i \in 0..(kk - 1) :
            LET cx == x + (i - o) * d[1]
                cy == y + (i - o) * d[2]
            IN  /\ cx \in 0..(n - 1)
                /\ cy \in 0..(n - 1)
                /\ b[cy][cx] = pid

\* The full-board scan: some marked cell lies on a run of kk marks of its slot.
AnyRun(b, n, kk) ==
    \E x \in 0..(n - 1), y \in 0..(n - 1) :
        /\ b[y][x] # 0
        /\ \E d \in {<<1, 0>>, <<0, 1>>, <<1, 1>>, <<1, -1>>} :
              \A i \in 1..(kk - 1) :
                  /\ x + i * d[1] \in 0..(n - 1)
                  /\ y + i * d[2] \in 0..(n - 1)
                  /\ b[y + i * d[2]][x + i * d[1]] = b[y][x]

Full(b, n) == \A x \in 0..(n - 1), y \in 0..(n - 1) : b[y][x] # 0

\* The frame of a rejected call.
SessionUnchanged == UNCHANGED <<board, turnIndex, actions, seq, turnTimer, timers>>

\* The step is a makeMove call.
IsMakeMoveCall ==
    \E playerId \in CallerIds, x \in Coords, y \in Coords : MakeMoveCall(playerId, x, y)

\* The step is an accepted move: makeMove counted it.
MoveAccepted == metrics'.movesAccepted = metrics.movesAccepted + 1

\* The timers that will still fire.
Pending == {h \in DOMAIN timers : timers[h].state = "pending"}

\* The session is in play: started and no End entry yet.
Active == NumOf("start") >= 1 /\ ~Ended

\* The result end() was last called with.
Result == IF saves = <<>> THEN Null ELSE saves[Len(saves)].result

\* ------------------------------------------------------------ replay
\* The replayer of the replay contract, which reads the entries alone: Start
\* sets the turn slot from the hash of the session identity and records the
\* first mover; Move places the mark of the mover's slot at the embedded
\* coordinates and passes the turn; Timeout passes the turn and touches no
\* cell; End sets the result and stops.
ReplayStart(n) ==
    [board |-> EmptyBoard(n), turnSlot |-> 0, firstPlayer |-> Null,
     result |-> Null, stopped |-> FALSE]

slotOf(ps, id) == IF ps[0] = id THEN 0 ELSE 1

ReplayApply(st, a, id, ps, n) ==
    IF st.stopped THEN st
    ELSE IF a.type = "start"
    THEN [st EXCEPT !.turnSlot = Sha256Byte0(id) % 2,
                    !.firstPlayer = a.payload.firstPlayer]
    ELSE IF a.type = "move"
    THEN LET x == a.payload.x
             y == a.payload.y
         IN  IF x \in 0..(n - 1) /\ y \in 0..(n - 1) /\ st.board[y][x] = 0
             THEN [st EXCEPT !.board[y][x] = slotOf(ps, a.payload.playerId) + 1,
                             !.turnSlot = 1 - @]
             ELSE st
    ELSE IF a.type = "timeout"
    THEN [st EXCEPT !.turnSlot = 1 - @]
    ELSE [st EXCEPT !.result = a.payload, !.stopped = TRUE]

RECURSIVE ReplayUpTo(_, _, _, _, _)
ReplayUpTo(log, i, id, ps, n) ==
    IF i = 0 THEN ReplayStart(n)
    ELSE ReplayApply(ReplayUpTo(log, i - 1, id, ps, n), log[i], id, ps, n)

Replay(log, id, ps, n) == ReplayUpTo(log, Len(log), id, ps, n)

\* ------------------------------------------------------------ the claims

\* C1: after any sequence of start(), makeMove() calls (accepted or rejected)
\* and timer firings, the i-th entry of the action log (counted from 1) has
\* seq = i: seq starts at 1 and grows by exactly 1 per entry, with no gap and
\* no duplicate.
C1_SeqGapFree ==
    /\ seq = Len(actions)
    /\ \A i \in DOMAIN actions : actions[i].seq = i

\* A log with a Start, accepted moves, a Timeout and an End, after a rejected call.
C1_Witness ==
    /\ Len(actions) >= 5
    /\ NumOf("start") >= 1
    /\ NumOf("move") >= 2
    /\ NumOf("timeout") >= 1
    /\ NumOf("end") >= 1
    /\ RejectedCalls >= 1

\* C2: once the session has ended, every later makeMove call, by any caller
\* and for any coordinates, is rejected (the claim names the condition
\* SessionAlreadyEnded, which the source has no code for) and leaves the
\* board, the turn slot, the action log and the timer unchanged.
C2_RejectedOnceEnded ==
    [][\A playerId \in CallerIds, x \in Coords, y \in Coords :
          (ServerSession /\ Ended /\ MakeMoveCall(playerId, x, y))
              => (ret'.ok = FALSE /\ SessionUnchanged)]_vars

\* C3: the action log holds at most one End entry, and an End entry is the
\* last entry of the log for good: nothing is ever appended after it.
C3_EndIsLast ==
    ServerSession =>
        /\ NumOf("end") <= 1
        /\ \A i \in DOMAIN actions : actions[i].type = "end" => i = Len(actions)

\* C4: of the timer firing and the move of the current mover for the same
\* turn, only one takes effect: the log never holds a Timeout entry for a
\* player and, as the next Move entry after it, the move of that player.
C4_TimeoutXorMove ==
    ServerSession =>
        ~ \E i \in DOMAIN actions, j \in DOMAIN actions :
            /\ i < j
            /\ actions[i].type = "timeout"
            /\ actions[j].type = "move"
            /\ \A m \in (i + 1)..(j - 1) : actions[m].type # "move"
            /\ actions[j].payload.playerId = actions[i].payload.playerId

\* C5: a timer armed for a turn never fires once a move of that turn has been
\* accepted (which disarms it, by re-arming or by ending the session), and
\* every Timeout entry is appended by the timer armed for the current turn.
C5_DisarmedTimerNeverFires ==
    [][/\ \A t \in DOMAIN timers :
             timers[t].turn < NumOf("move")
                 => (timers'[t].state = "fired" => timers[t].state = "fired")
       /\ NumIn(actions', "timeout") > NumOf("timeout")
             => \E t \in DOMAIN timers :
                    /\ timers[t].state = "pending"
                    /\ timers'[t].state = "fired"
                    /\ t = turnTimer
                    /\ timers[t].turn = NumOf("move")]_vars

\* A timer was disarmed by an accepted move, and the session went on to end.
C5_Witness ==
    /\ \E t \in DOMAIN timers :
          timers[t].state = "cleared" /\ timers[t].turn < NumOf("move")
    /\ ProperlyStarted
    /\ Ended
    /\ LastAction.payload.reason \in {"win", "draw"}

\* C6: in a started, not yet ended session a makeMove call of anyone but the
\* player at the turn slot returns the rejection not_your_turn naming the
\* expected identity, for any coordinates, and leaves the board, the turn
\* slot and the action log unchanged.
C6_NotYourTurn ==
    [][(NumOf("start") >= 1 /\ ~Ended) =>
          \/ /\ ret'.ok = FALSE
             /\ ret'.error.code = "not_your_turn"
             /\ ret'.error.expected = players[turnIndex]
             /\ SessionUnchanged
          \/ ~ \E playerId \in CallerIds \ {players[turnIndex]}, x \in Coords, y \in Coords :
                  MakeMoveCall(playerId, x, y)]_vars

\* The other player was turned away in a session that is under way.
C6_Witness ==
    /\ ProperlyStarted
    /\ ~Ended
    /\ NumOf("move") >= 1
    /\ players[0] # players[1]
    /\ ret.ok = FALSE
    /\ ret.error.code = "not_your_turn"
    /\ ret.error.expected = players[turnIndex]

\* C7: a rejected makeMove leaves the board, the turn slot, the pending timer
\* and the action log unchanged; a Move entry is appended by an accepted call
\* and by nothing else, so the Move entries number the accepted calls.
C7_RejectionsLeaveNoTrace ==
    [][/\ \/ IF ret'.ok
             THEN NumIn(actions', "move") = NumOf("move") + 1
             ELSE SessionUnchanged
          \/ ~IsMakeMoveCall
       /\ NumIn(actions', "move") # NumOf("move") => (ret'.ok /\ IsMakeMoveCall)
       /\ metrics'.movesAccepted = NumIn(actions', "move")]_vars

\* A move on an occupied cell was rejected after moves had been accepted.
C7_Witness ==
    /\ ret.ok = FALSE
    /\ ret.error.code = "cell_taken"
    /\ NumOf("move") >= 2
    /\ metrics.movesAccepted = NumOf("move")

\* C8: an accepted move ends the session with reason win and the mover as
\* winner exactly when the placed cell lies on a line of k marks of the mover
\* along one of the four axes; it ends it with reason draw and no winner
\* exactly when there is no such line and the board is full; otherwise no End
\* entry follows the Move entry.
C8_WinIffRun ==
    ret.ok =>
        LET mv == ret.action.payload
            run == RunThrough(board, size, k, mv.x, mv.y, board[mv.y][mv.x])
            full == Full(board, size)
        IN  /\ board[mv.y][mv.x] # 0
            /\ players[board[mv.y][mv.x] - 1] = mv.playerId
            /\ (LastAction.type = "end"
                    /\ LastAction.payload = [winner |-> mv.playerId, reason |-> "win"])
                  <=> run
            /\ (LastAction.type = "end"
                    /\ LastAction.payload = [winner |-> Null, reason |-> "draw"])
                  <=> (~run /\ full)
            /\ (LastAction = ret.action) <=> (~run /\ ~full)

\* A win along the falling diagonal of the default board, completed in its middle.
C8_Witness ==
    /\ ret.ok
    /\ size = DefaultSize
    /\ k = DefaultK
    /\ ret.action.payload.x = 1
    /\ ret.action.payload.y = 1
    /\ board[2][0] = board[1][1]
    /\ board[0][2] = board[1][1]
    /\ board[0][0] # board[1][1]
    /\ board[1][0] # board[1][1]
    /\ board[0][1] # board[1][1]
    /\ LastAction.type = "end"
    /\ LastAction.payload.reason = "win"

\* C9: in a session started and then played with legal moves in turn, every
\* move is accepted, and when a move completes a run the log is one Start,
\* the m Moves and one End with payload {winner: the mover, reason: win},
\* the End right after the winning Move, with seq 1..m+2.
C9_WinEndsLog ==
    LET m == NumOf("move")
        n == Len(actions)
    IN  m >= 1 =>
          /\ ret.ok
          /\ LET mv == ret.action.payload
             IN  RunThrough(board, size, k, mv.x, mv.y, board[mv.y][mv.x])
                   => /\ n = m + 2
                      /\ actions[1].type = "start"
                      /\ \A i \in 2..(m + 1) : actions[i].type = "move"
                      /\ actions[m + 1] = ret.action
                      /\ actions[n].type = "end"
                      /\ actions[n].payload = [winner |-> mv.playerId, reason |-> "win"]
                      /\ \A i \in 1..n : actions[i].seq = i

\* The unit test's game: (0,0) (1,0) (0,1) (1,1) (0,2), seven entries.
C9_Witness ==
    /\ Len(actions) = 7
    /\ actions[2].payload = [playerId |-> "A", x |-> 0, y |-> 0]
    /\ actions[3].payload = [playerId |-> "B", x |-> 1, y |-> 0]
    /\ actions[4].payload = [playerId |-> "A", x |-> 0, y |-> 1]
    /\ actions[5].payload = [playerId |-> "B", x |-> 1, y |-> 1]
    /\ actions[6].payload = [playerId |-> "A", x |-> 0, y |-> 2]
    /\ actions[7] = [seq |-> 7, type |-> "end", rng_seed |-> Undefined,
                     payload |-> [winner |-> "A", reason |-> "win"]]

\* C10: turns strictly alternate: for two players of distinct identities, two
\* Move entries with no Move entry between them name different players.
C10_MovesAlternate ==
    ServerSession =>
        \A i \in MoveIdx, j \in MoveIdx :
            (i < j /\ \A m \in (i + 1)..(j - 1) : m \notin MoveIdx)
                => actions[i].payload.playerId # actions[j].payload.playerId

\* C11: in every reachable state of a session run as the server runs it,
\* replaying the action log from an empty board in seq order reproduces the
\* engine's current board and the result end() was called with. (Replay is an
\* operator of the entries alone, so replaying twice gives the same state.)
C11_ReplayReproduces ==
    ServerSession =>
        LET r == Replay(actions, gameId, players, size)
        IN  /\ r.board = board
            /\ r.result = Result

\* C12: every Start entry records players[hash(gameId) mod 2] as firstPlayer,
\* whatever calls were made before start() and however often start() is
\* called, so that two sessions of the same identity record the same first
\* mover.
C12_FirstMoverFromIdentity ==
    \A i \in DOMAIN actions :
        actions[i].type = "start"
            => actions[i].payload.firstPlayer = players[Sha256Byte0(gameId) % 2]

\* C13: when the turn timer fires, the log grows by exactly two entries: a
\* Timeout naming the player at the current turn slot, then an End with
\* winner = the other player and reason = timeout; no board cell changes and
\* the session is ended.
C13_TimeoutEndsSession ==
    [][(\E h \in DOMAIN timers : TimerFireCall(h)) =>
          LET n == Len(actions)
          IN  /\ Len(actions') = n + 2
              /\ SubSeq(actions', 1, n) = actions
              /\ actions'[n + 1].type = "timeout"
              /\ actions'[n + 1].payload.playerId = players[turnIndex]
              /\ actions'[n + 2].type = "end"
              /\ actions'[n + 2].payload =
                     [winner |-> players[1 - turnIndex], reason |-> "timeout"]
              /\ board' = board
              /\ endedAt'
              /\ Ended']_vars

\* The timer fired after two accepted moves, between two identities.
C13_Witness ==
    /\ players[0] # players[1]
    /\ NumOf("move") >= 2
    /\ NumOf("end") = 1
    /\ LastAction.type = "end"
    /\ LastAction.payload.reason = "timeout"
    /\ actions[Len(actions) - 1].type = "timeout"

\* C14: in every transition, each cell that held a mark before holds the
\* same mark after, and an accepted move changes exactly one cell: the cell
\* of the move, from empty to the mover's mark.
C14_CellsWriteOnce ==
    [][LET cells == (0..(size - 1)) \X (0..(size - 1))
           changed == {c \in cells : board'[c[2]][c[1]] # board[c[2]][c[1]]}
       IN  /\ \A c \in changed : board[c[2]][c[1]] = 0
           /\ MoveAccepted =>
                 /\ ret'.ok
                 /\ changed = {<<ret'.action.payload.x, ret'.action.payload.y>>}
                 /\ \A c \in changed : board'[c[2]][c[1]] = turnIndex + 1
           /\ ~MoveAccepted => changed = {}]_vars

\* A move onto a taken cell has just been turned down, two marks on the board.
C14_Witness ==
    /\ NumOf("move") >= 2
    /\ ret.ok = FALSE
    /\ ret.error.code = "cell_taken"
    /\ \E y \in 0..(size - 1), x \in 0..(size - 1) : board[y][x] = 1
    /\ \E y \in 0..(size - 1), x \in 0..(size - 1) : board[y][x] = 2

\* C15: a non-empty action log has a Start entry as its first entry (seq 1)
\* and no other Start entry, whatever order start() and makeMove() are
\* called in and however often start() is called.
C15_StartFirstAndOnce ==
    actions # <<>> =>
        /\ actions[1].type = "start"
        /\ actions[1].seq = 1
        /\ NumOf("start") = 1

\* C16: in an active session, makeMove by the current mover with x or y
\* outside [0, size) (x = size and y = -1 included) is rejected with
\* out_of_bounds, inside the grid on a non-empty cell is rejected with
\* cell_taken, both changing nothing, and on an in-bounds empty cell is
\* accepted and marks that cell.
C16_PlacementChecks ==
    [][Active =>
          \A x \in Coords, y \in Coords :
              MakeMoveCall(players[turnIndex], x, y) =>
                  IF ~(x \in 0..(size - 1) /\ y \in 0..(size - 1))
                  THEN /\ ret'.ok = FALSE
                       /\ ret'.error.code = "out_of_bounds"
                       /\ SessionUnchanged
                  ELSE IF board[y][x] # 0
                  THEN /\ ret'.ok = FALSE
                       /\ ret'.error.code = "cell_taken"
                       /\ SessionUnchanged
                  ELSE /\ ret'.ok
                       /\ ret'.action.payload = [playerId |-> players[turnIndex],
                                                  x |-> x, y |-> y]
                       /\ board'[y][x] = turnIndex + 1]_vars

\* The current mover was turned down for leaving the grid, the game under way.
C16_Witness ==
    /\ Active
    /\ NumOf("move") >= 1
    /\ ret.ok = FALSE
    /\ ret.error.code = "out_of_bounds"

\* C17: at any instant at most one timer is pending; it is the one turnTimer
\* holds and it was armed for the current turn, never for an earlier one.
C17_OnePendingTimer ==
    /\ Cardinality(Pending) <= 1
    /\ \A h \in Pending :
          /\ h = turnTimer
          /\ timers[h].turn = metrics.movesAccepted

\* The third timer of the session is pending, the two before it were cancelled.
C17_Witness ==
    /\ Len(timers) >= 3
    /\ Pending = {Len(timers)}
    /\ \A h \in 1..(Len(timers) - 1) : timers[h].state = "cleared"

C19_SaveFailureKeepsEnd ==
    [][\A i \in DOMAIN saves, ok \in BOOLEAN :
          SaveSettleCall(i, ok) =>
              /\ endedAt /\ endedAt'
              /\ actions' = actions
              /\ actions'[saves[i].actionCount].type = "end"
              /\ actions'[saves[i].actionCount].payload = saves[i].result
              /\ seq' = seq
              /\ board' = board
              /\ turnIndex' = turnIndex
              /\ turnTimer' = turnTimer
              /\ timers' = timers]_vars

\* The save of a session ended by a win failed; End is the last entry and no
\* timer is armed.
C19_Witness ==
    /\ saves # <<>>
    /\ saves[Len(saves)].state = "rejected"
    /\ endedAt
    /\ LastAction.type = "end"
    /\ LastAction.payload.reason = "win"
    /\ turnTimer = NoTimer
    /\ Pending = {}

\* C20: makeMove reports the first failing check in the order phase, turn,
\* placement: session_already_ended for any call once the session has ended,
\* else not_your_turn for a caller other than the current mover, else
\* out_of_bounds for coordinates off the grid, else cell_taken for a marked
\* cell; only a call that passes all four is accepted.
C20_ValidationOrder ==
    [][\A playerId \in CallerIds, x \in Coords, y \in Coords :
          (ServerSession /\ MakeMoveCall(playerId, x, y)) =>
              LET answer == IF ret'.ok THEN "ok" ELSE ret'.error.code
              IN  answer =
                    IF Ended THEN "session_already_ended"
                    ELSE IF playerId # players[turnIndex] THEN "not_your_turn"
                    ELSE IF ~(x \in 0..(size - 1) /\ y \in 0..(size - 1))
                    THEN "out_of_bounds"
                    ELSE IF board[y][x] # 0 THEN "cell_taken"
                    ELSE "ok"]_vars

\* C21: in a session run as the server runs it, a timer is pending if and
\* only if the session is Active (a Start entry and no End entry); no timer
\* is pending once the session has ended.
C21_TimerPendingIffActive ==
    ServerSession => ((Pending # {}) <=> Active)

\* C22: when a move is accepted before the session has ended, the board after
\* the move holds a run of at least k marks of one slot anywhere if and only
\* if checkWinAt at the cell just placed, for the mover's slot, returns true.
C22_LocalCheckIsFullScan ==
    [][(~Ended /\ MoveAccepted) =>
          LET mv == ret'.action.payload
              after == [This EXCEPT !.board = board']
          IN  AnyRun(board', size, k)
                <=> checkWinAt(after, mv.x, mv.y, board'[mv.y][mv.x])]_vars

\* The seventh move completed the anti-diagonal through the centre.
C22_Witness ==
    /\ NumOf("move") = 7
    /\ LastAction.type = "end"
    /\ LastAction.payload.reason = "win"
    /\ board[0][2] = board[1][1]
    /\ board[2][0] = board[1][1]
    /\ ret.ok
    /\ ret.action.payload.x = 1
    /\ ret.action.payload.y = 1

\* C23: every replay object end() hands to saveReplay is consistent when it
\* is handed over: actionCount is the length of the log at that moment, the
\* entries have seq 1..actionCount, the last of them is the End entry and
\* result is its payload; and there is one hand-off per session.
C23_OneConsistentHandOff ==
    ServerSession =>
        /\ \A i \in DOMAIN saves :
              LET n == saves[i].actionCount
              IN  /\ n \in DOMAIN actions
                  /\ \A j \in 1..n : actions[j].seq = j
                  /\ actions[n].type = "end"
                  /\ actions[n].payload = saves[i].result
        /\ Len(saves) = NumOf("end")
        /\ Len(saves) <= 1

\* C24: every started session eventually ends: if a pending timer fires unless
\* it is cancelled, a session that has a Start entry comes to have an End
\* entry.
C24_StartedEventuallyEnds == (NumOf("start") >= 1) ~> Ended

\* A session that ended in a draw on the full 2x2 board.
C24_Witness ==
    /\ size = 2
    /\ NumOf("move") = 4
    /\ NumOf("end") = 1
    /\ LastAction.type = "end"
    /\ LastAction.payload.reason = "draw"

\* C25: however many join_game requests were served for the game, no emit
\* call of the engine reaches the room more than once.
C25_ForwardedOnce ==
    \A i \in DOMAIN room, j \in DOMAIN room :
        room[i].emission = room[j].emission => i = j

====
